---- MODULE Spec2Model ----
(***************************************************************************)
(* Model of the driver dashboard page src/src/pages/Driver.tsx: the ride   *)
(* request list it displays (React state rideRequests), the browser's      *)
(* localStorage item "rideRequests", the remote table ride_requests, the   *)
(* asynchronous loadRideRequests (mount effect and Refresh button) and the *)
(* asynchronous handleRideAction (Accept / Decline / Complete buttons).    *)
(*                                                                         *)
(* Every await of the source is a point where another callback may run, so *)
(* each handler is cut into one action per synchronous stretch: the code   *)
(* up to an await, then the code from the answer of that await to the next *)
(* await.  The remote store answers a call atomically at the moment the    *)
(* answer is delivered.  A remote call ends in one of three ways: "ok",    *)
(* "error" (the client resolves with an error result and no data) or       *)
(* "throw" (the awaited promise rejects).                                  *)
(*                                                                         *)
(* JavaScript strings are TLA+ strings; undefined and null are the two     *)
(* reserved strings Undefined and Null.  The clock is read as one instant  *)
(* NowISO for the whole run.                                               *)
(***************************************************************************)
EXTENDS Naturals, Sequences, FiniteSets, TLC

VARIABLES
    rideRequests,   \* React state: the displayed list of LocalRideRequest
    localStorage,   \* the item "rideRequests": <<>> when absent, else <<JSON text>>
    remote,         \* the table ride_requests: a sequence of rows, ids unique
    pc,             \* per load call site: "idle", "select", "check", "insert", "done"
    typedRequests,  \* per load: the local constant typedRequests the loop iterates
    idx,            \* per load: position of the for-of loop in typedRequests
    last,           \* per load: how the latest remote call of the current run answered
    raised,         \* per load: the promise of the current run rejected
    inflight,       \* handleRideAction calls awaiting their remote update: the
                    \* closure (requestId, action, user) and the update sent
    toasts,         \* number of toast() calls so far
    nLoads,         \* number of Refresh clicks so far
    nActions        \* number of handleRideAction calls so far

vars == << rideRequests, localStorage, remote, pc, typedRequests, idx,
           last, raised, inflight, toasts, nLoads, nActions >>

----------------------------------------------------------------------------
(* Bounds of the model *)

MaxLoads == 1       \* Refresh clicks (the mount load is not counted)
MaxActions == 1     \* button clicks on Accept / Decline / Complete

----------------------------------------------------------------------------
(* JavaScript values *)

Undefined == "<undefined>"
Null == "<null>"
NowISO == "2024-05-01T10:00"

Falsy(v) == v \in {Undefined, Null, ""}

\* a || b
Or(a, b) == IF Falsy(a) THEN b ELSE a

\* String(v) as the + operator applies it to a non-string operand
ToStr(v) == IF v = Null THEN "null" ELSE IF v = Undefined THEN "undefined" ELSE v

\* new Date(t).toLocaleDateString() and .toLocaleTimeString(): the timestamps
\* of the model are "<day>T<time>"
Days == {"2024-04-30", "2024-05-01"}
Times == {"08:15", "10:00"}
toLocaleDateString(t) ==
    IF \E d \in Days, h \in Times : t = d \o "T" \o h
    THEN CHOOSE d \in Days : \E h \in Times : t = d \o "T" \o h
    ELSE "Invalid Date"
toLocaleTimeString(t) ==
    IF \E d \in Days, h \in Times : t = d \o "T" \o h
    THEN CHOOSE h \in Times : \E d \in Days : t = d \o "T" \o h
    ELSE "Invalid Date"

\* s.split('@')[0] over the mail addresses of the model
LocalParts == {"amy", "unknown", "stu1", "null"}
MailDomains == {"uni.edu", "email.com", "example.com"}
EmailPrefix(s) ==
    IF \E a \in LocalParts, d \in MailDomains : s = a \o "@" \o d
    THEN CHOOSE a \in LocalParts : \E d \in MailDomains : s = a \o "@" \o d
    ELSE s

\* property read: a missing property reads as undefined
Get(r, f) == IF f \in DOMAIN r THEN r[f] ELSE Undefined

----------------------------------------------------------------------------
(* LocalRideRequest and the localStorage text *)

Fields == {"id", "studentName", "studentEmail", "pickupLocation", "destination",
           "date", "time", "status", "disabilityType", "additionalNotes"}

LocalStatuses == {"pending", "accepted", "completed", "declined"}

\* JSON.stringify of a list of objects: an object is written as its set of
\* key/value pairs, properties whose value is undefined are left out
JSONstringify(list) ==
    [i \in 1..Len(list) |->
        {<<f, list[i][f]>> : f \in {g \in DOMAIN list[i] : list[i][g] # Undefined}}]

\* JSON.parse of such a text
JSONparse(text) ==
    [i \in 1..Len(text) |->
        [f \in {kv[1] : kv \in text[i]} |->
            (CHOOSE kv \in text[i] : kv[1] = f)[2]]]

\* localStorage.getItem("rideRequests") || "[]"
getItem(store) == IF store = <<>> THEN <<>> ELSE store[1]

validateStatus_NoDeclined(status) ==
    IF status = "accepted" THEN "accepted"
    ELSE IF status = "completed" THEN "completed"
    ELSE "pending"

validateStatus(status) ==
    IF status = "accepted" THEN "accepted"
    ELSE IF status = "completed" THEN "completed"
    ELSE IF status = "declined" THEN "declined"
    ELSE "pending"

processRideRequests(storedRequests) ==
    [i \in 1..Len(storedRequests) |->
        LET request == storedRequests[i] IN
        [ id              |-> Get(request, "id"),
          studentName     |-> Or(Get(request, "studentName"), "Unknown"),
          studentEmail    |-> Or(Get(request, "studentEmail"), "unknown@email.com"),
          pickupLocation  |-> Or(Get(request, "pickupLocation"), ""),
          destination     |-> Or(Get(request, "destination"), ""),
          date            |-> Or(Get(request, "date"), toLocaleDateString(NowISO)),
          time            |-> Or(Get(request, "time"), toLocaleTimeString(NowISO)),
          status          |-> validateStatus(Or(Get(request, "status"), "pending")),
          disabilityType  |-> Or(Get(request, "disabilityType"), "Not specified"),
          additionalNotes |-> Get(request, "additionalNotes") ]]

formatDbRequests_RawStatus(dbRequests) ==
    [i \in 1..Len(dbRequests) |->
        LET dbReq == dbRequests[i] IN
        [ id              |-> dbReq.id,
          studentName     |-> dbReq.student_id,
          studentEmail    |-> ToStr(dbReq.student_id) \o "@example.com",
          pickupLocation  |-> dbReq.pickup_location,
          destination     |-> dbReq.destination,
          date            |-> toLocaleDateString(Or(dbReq.created_at, NowISO)),
          time            |-> toLocaleTimeString(Or(dbReq.created_at, NowISO)),
          status          |-> dbReq.status,
          disabilityType  |-> "Not specified",
          additionalNotes |-> "From database" ]]

\* dbRequests.map(dbReq => ({...})) of the remote branch
formatDbRequests(dbRequests) ==
    [i \in 1..Len(dbRequests) |->
        LET dbReq == dbRequests[i] IN
        [ id              |-> dbReq.id,
          studentName     |-> dbReq.student_id,
          studentEmail    |-> ToStr(dbReq.student_id) \o "@example.com",
          pickupLocation  |-> dbReq.pickup_location,
          destination     |-> dbReq.destination,
          date            |-> toLocaleDateString(Or(dbReq.created_at, NowISO)),
          time            |-> toLocaleTimeString(Or(dbReq.created_at, NowISO)),
          status          |-> validateStatus(dbReq.status),
          disabilityType  |-> "Not specified",
          additionalNotes |-> "From database" ]]

dbRequestOf_RawStatus(request) ==
    [ id              |-> request.id,
      student_id      |-> EmailPrefix(request.studentEmail),
      driver_id       |-> Null,
      pickup_location |-> request.pickupLocation,
      destination     |-> request.destination,
      status          |-> request.status,
      created_at      |-> NowISO,
      updated_at      |-> NowISO ]

\* the row the backfill inserts for a local request
dbRequestOf(request) ==
    [ id              |-> request.id,
      student_id      |-> EmailPrefix(request.studentEmail),
      driver_id       |-> Null,
      pickup_location |-> request.pickupLocation,
      destination     |-> request.destination,
      status          |-> IF request.status = "declined" THEN "rejected" ELSE request.status,
      created_at      |-> NowISO,
      updated_at      |-> NowISO ]

----------------------------------------------------------------------------
(* The remote table ride_requests *)

RowIds(table) == {table[i].id : i \in 1..Len(table)}

\* .select('*'): the rows, in table order
selectAll(table) == table

\* .select('id').eq('id', id).maybeSingle(): the row's id, or null
selectById(table, id) == IF id \in RowIds(table) THEN id ELSE Null

\* .update(patch).eq('id', id)
updateById(table, id, patch) ==
    [i \in 1..Len(table) |->
        IF table[i].id = id
        THEN [table[i] EXCEPT !.status = patch.status,
                              !.driver_id = patch.driver_id,
                              !.updated_at = patch.updated_at]
        ELSE table[i]]

\* the ways a remote call can end; id is the table's key, so an insert of an
\* id the table holds cannot succeed
Outcomes == {"ok", "error", "throw"}
InsertOutcomes(table, id) == IF id \in RowIds(table) THEN {"error", "throw"} ELSE Outcomes

----------------------------------------------------------------------------
(* The page *)

Loads == {"mount", "refresh"}
Actions == {"accept", "decline", "complete"}
RequestIds == {"1", "2", "3"}

\* useAuth().user: null while the session is loading, else the user (its id)
Users == {Null, "drv1"}

\* the rows a read of load p sees: the table as it is when the read answers;
\* an insert of another load that has not answered yet is not in it
CurrentId(p) == typedRequests[p][idx[p]].id
RowsSeenBy_Serialized(p) ==
    LET pend == {q \in Loads \ {p} : pc[q] = "insert" /\ CurrentId(q) \notin RowIds(remote)} IN
    IF pend = {} THEN remote
    ELSE Append(remote, dbRequestOf(typedRequests[CHOOSE q \in pend : TRUE]
                                                 [idx[CHOOSE q \in pend : TRUE]]))
RowsSeenBy(p) == remote


\* if (!error && dbRequests && dbRequests.length > 0)
UseRemote(outcome, dbRequests) == outcome = "ok" /\ Len(dbRequests) > 0

TryCovers_NotUpdate(site) == site \in {"select", "check", "insert"}

\* the try blocks of the page: a rejected await at these sites is caught
TryCovers(site) == site \in {"select", "check", "insert", "update"}

ShouldInsert_Always(existingData) == TRUE

\* if (!existingData)
ShouldInsert(existingData) == Falsy(existingData)

\* rideRequests.map(request => request.id === requestId ? {...request, status} : request)
newStatusOf(action) ==
    IF action = "accept" THEN "accepted"
    ELSE IF action = "decline" THEN "declined" ELSE "completed"

updatedRequestsOf_All(list, requestId, action) ==
    [i \in 1..Len(list) |->
        IF list[i].id = requestId \/ list[i].status = "pending"
        THEN [list[i] EXCEPT !.status = newStatusOf(action)]
        ELSE list[i]]

updatedRequestsOf(list, requestId, action) ==
    [i \in 1..Len(list) |->
        IF list[i].id = requestId
        THEN [list[i] EXCEPT !.status = newStatusOf(action)]
        ELSE list[i]]

persistedList_Stale(list, updated) == list

\* what handleRideAction writes to localStorage
persistedList(list, updated) == updated

statusForDb_Unmapped(action) == newStatusOf(action)

statusForDb(action) ==
    IF action = "decline" THEN "rejected"
    ELSE IF action = "accept" THEN "accepted" ELSE "completed"

\* the update handleRideAction sends
updatePatch(action, u) ==
    [ status     |-> statusForDb(action),
      driver_id  |-> Or(IF u = Null THEN Undefined ELSE u, Null),
      updated_at |-> NowISO ]

ButtonsFor_CompleteEarly(status) ==
    IF status = "pending" THEN {"accept", "decline", "complete"}
    ELSE IF status = "accepted" THEN {"complete"}
    ELSE {}

\* the buttons a row of the table shows
ButtonsFor(status) ==
    IF status = "pending" THEN {"accept", "decline"}
    ELSE IF status = "accepted" THEN {"complete"}
    ELSE {}

\* the clicks the table offers: (request id, action) of every button shown
Offered(list) ==
    UNION {{<<list[i].id, a>> : a \in ButtonsFor(list[i].status)} : i \in 1..Len(list)}

----------------------------------------------------------------------------
(* Initial contents of the browser's store and of the remote table *)

RawFull(id, st) ==
    [ id |-> id, studentName |-> "Amy", studentEmail |-> "amy@uni.edu",
      pickupLocation |-> "Dorm", destination |-> "Lab",
      date |-> "4/30/2024", time |-> "8:15:00 AM", status |-> st,
      disabilityType |-> "Visual", additionalNotes |-> "ramp" ]

RawSparse(id, st) == [ id |-> id, status |-> st ]

RawBlank(id, st) ==
    [ id |-> id, studentName |-> Null, studentEmail |-> "",
      pickupLocation |-> "", destination |-> "", date |-> "", time |-> "",
      status |-> st, disabilityType |-> "", additionalNotes |-> "" ]

RawLists ==
    { <<RawSparse("1", Undefined)>>,
      <<RawBlank("2", "")>>,
      <<RawSparse("1", "rejected")>>,
      <<RawFull("2", "accepted")>>,
      <<RawFull("2", "declined"), RawFull("1", "pending")>> }

InitialStores == {<<>>} \cup {<<JSONstringify(l)>> : l \in RawLists}

InitialRow(id, st, created) ==
    [ id |-> id,
      student_id |-> IF created = Null THEN Null ELSE "stu1",
      driver_id |-> Null, pickup_location |-> "Gate", destination |-> "Clinic",
      status |-> st, created_at |-> created, updated_at |-> created ]

InitialTables ==
    { <<>>,
      <<InitialRow("3", "rejected", "2024-04-30T08:15")>> }

Init ==
    /\ rideRequests = <<>>
    /\ localStorage \in InitialStores
    /\ remote \in InitialTables
    /\ pc = [p \in Loads |-> IF p = "mount" THEN "select" ELSE "idle"]
    /\ typedRequests = [p \in Loads |-> <<>>]
    /\ idx = [p \in Loads |-> 0]
    /\ last = [p \in Loads |-> "none"]
    /\ raised = [p \in Loads |-> FALSE]
    /\ inflight = <<>>
    /\ toasts = 0
    /\ nLoads = 0
    /\ nActions = 0

----------------------------------------------------------------------------
(* Actions *)

\* how a call answered, as the code sees it: "found" / "nothing" for a read
\* that resolved with / without data, "ok" for a write that resolved, "error"
\* and "throw" as they are
Answer(outcome, hasData) ==
    IF outcome = "ok" THEN (IF hasData THEN "found" ELSE "nothing") ELSE outcome

\* onClick={loadRideRequests}: the code up to the first await
RefreshClick ==
    /\ pc["refresh"] \in {"idle", "done"}
    /\ nLoads < MaxLoads
    /\ nLoads' = nLoads + 1
    /\ pc' = [pc EXCEPT !["refresh"] = "select"]
    /\ typedRequests' = [typedRequests EXCEPT !["refresh"] = <<>>]
    /\ idx' = [idx EXCEPT !["refresh"] = 0]
    /\ last' = [last EXCEPT !["refresh"] = "none"]
    /\ raised' = [raised EXCEPT !["refresh"] = FALSE]
    /\ UNCHANGED << rideRequests, localStorage, remote, inflight, toasts, nActions >>

\* the loop's next stop after the entry at idx[p]: the next check, or the end
AfterEntry(p) == IF idx[p] < Len(typedRequests[p]) THEN "check" ELSE "done"

\* the select-all answers: lines 70-104, to the await of the first check
SelectReturn(p, outcome) ==
    /\ pc[p] = "select"
    /\ LET dbRequests == IF outcome = "ok" THEN selectAll(RowsSeenBy(p)) ELSE <<>>
           typed == processRideRequests(JSONparse(getItem(localStorage)))
       IN
       /\ last' = [last EXCEPT ![p] = Answer(outcome, Len(dbRequests) > 0)]
       /\ IF outcome = "throw" /\ ~TryCovers("select")
          THEN /\ raised' = [raised EXCEPT ![p] = TRUE]
               /\ pc' = [pc EXCEPT ![p] = "done"]
               /\ UNCHANGED << rideRequests, typedRequests, idx >>
          ELSE IF UseRemote(outcome, dbRequests)
          THEN /\ rideRequests' = formatDbRequests(dbRequests)
               /\ pc' = [pc EXCEPT ![p] = "done"]
               /\ UNCHANGED << typedRequests, idx, raised >>
          ELSE /\ rideRequests' = typed
               /\ typedRequests' = [typedRequests EXCEPT ![p] = typed]
               /\ idx' = [idx EXCEPT ![p] = IF Len(typed) > 0 THEN 1 ELSE 0]
               /\ pc' = [pc EXCEPT ![p] = IF Len(typed) > 0 THEN "check" ELSE "done"]
               /\ UNCHANGED raised
    /\ UNCHANGED << localStorage, remote, inflight, toasts, nLoads, nActions >>

\* the existence check of the entry at idx[p] answers: lines 108-127
CheckReturn(p, outcome) ==
    /\ pc[p] = "check"
    /\ LET request == typedRequests[p][idx[p]]
           existingData == IF outcome = "ok" THEN selectById(RowsSeenBy(p), request.id) ELSE Null
       IN
       /\ last' = [last EXCEPT ![p] = Answer(outcome, ~Falsy(existingData))]
       /\ IF outcome = "throw"
          THEN /\ pc' = [pc EXCEPT ![p] = "done"]
               /\ raised' = [raised EXCEPT ![p] = ~TryCovers("check")]
               /\ UNCHANGED idx
          ELSE IF ShouldInsert(existingData)
          THEN /\ pc' = [pc EXCEPT ![p] = "insert"]
               /\ UNCHANGED << idx, raised >>
          ELSE /\ pc' = [pc EXCEPT ![p] = AfterEntry(p)]
               /\ idx' = [idx EXCEPT ![p] = IF AfterEntry(p) = "check" THEN @ + 1 ELSE @]
               /\ UNCHANGED raised
    /\ UNCHANGED << rideRequests, localStorage, remote, typedRequests,
                    inflight, toasts, nLoads, nActions >>

\* the insert of the entry at idx[p] answers: lines 127-133
InsertReturn(p, outcome) ==
    /\ pc[p] = "insert"
    /\ LET request == typedRequests[p][idx[p]] IN
       /\ outcome \in InsertOutcomes(remote, request.id)
       /\ last' = [last EXCEPT ![p] = outcome]
       /\ remote' = IF outcome = "ok" THEN Append(remote, dbRequestOf(request)) ELSE remote
       /\ IF outcome = "throw"
          THEN /\ pc' = [pc EXCEPT ![p] = "done"]
               /\ raised' = [raised EXCEPT ![p] = ~TryCovers("insert")]
               /\ UNCHANGED idx
          ELSE /\ pc' = [pc EXCEPT ![p] = AfterEntry(p)]
               /\ idx' = [idx EXCEPT ![p] = IF AfterEntry(p) = "check" THEN @ + 1 ELSE @]
               /\ UNCHANGED raised
    /\ UNCHANGED << rideRequests, localStorage, typedRequests,
                    inflight, toasts, nLoads, nActions >>

\* a button of the table is clicked while useAuth() gives user u:
\* handleRideAction up to its await, lines 141-170
HandleRideAction(requestId, action, u) ==
    /\ <<requestId, action>> \in Offered(rideRequests)
    /\ nActions < MaxActions
    /\ nActions' = nActions + 1
    /\ LET updatedRequests == updatedRequestsOf(rideRequests, requestId, action) IN
       /\ localStorage' = <<JSONstringify(persistedList(rideRequests, updatedRequests))>>
       /\ rideRequests' = updatedRequests
    /\ inflight' = Append(inflight, [id |-> requestId, action |-> action, user |-> u,
                                     patch |-> updatePatch(action, u)])
    /\ UNCHANGED << remote, pc, typedRequests, idx, last, raised, toasts, nLoads >>

\* the remote update of the k-th waiting handleRideAction answers: lines 170-178
UpdateReturn(k, outcome) ==
    /\ k \in 1..Len(inflight)
    /\ remote' = IF outcome = "ok"
                 THEN updateById(remote, inflight[k].id, inflight[k].patch)
                 ELSE remote
    /\ inflight' = [i \in 1..(Len(inflight) - 1) |->
                        IF i < k THEN inflight[i] ELSE inflight[i + 1]]
    /\ toasts' = IF outcome = "throw" /\ ~TryCovers("update")
                 THEN toasts          \* the handler rejects before toast()
                 ELSE toasts + 1
    /\ UNCHANGED << rideRequests, localStorage, pc, typedRequests, idx,
                    last, raised, nLoads, nActions >>

Next ==
    \/ RefreshClick
    \/ \E p \in Loads, outcome \in Outcomes : SelectReturn(p, outcome)
    \/ \E p \in Loads, outcome \in Outcomes : CheckReturn(p, outcome)
    \/ \E p \in Loads, outcome \in Outcomes : InsertReturn(p, outcome)
    \/ \E requestId \in RequestIds, action \in Actions, u \in Users :
            HandleRideAction(requestId, action, u)
    \/ \E k \in 1..MaxActions, outcome \in Outcomes : UpdateReturn(k, outcome)

Spec == Init /\ [][Next]_vars

----------------------------------------------------------------------------
(* Vocabulary of the properties *)

\* the list the item "rideRequests" deserializes to
Cached == JSONparse(getItem(localStorage))
CachedNext == JSONparse(getItem(localStorage'))

\* load p takes a step out of the await it is at
LeavesSelect(p) == pc[p] = "select" /\ pc'[p] # "select"
LoopStep(p) == pc[p] \in {"check", "insert"} /\ (pc'[p] # pc[p] \/ idx'[p] # idx[p])

\* a handleRideAction call starts / the remote update of one answers
ActionStarts == nActions' = nActions + 1
ActionEnds == Len(inflight') < Len(inflight)

\* the closure of the handleRideAction call an ActionStarts step starts
Started == inflight'[Len(inflight')]

\* two lists hold the same values: same length, every property reads the same
SameList(a, b) ==
    /\ Len(a) = Len(b)
    /\ \A i \in 1..Len(a) :
          /\ DOMAIN a[i] \subseteq Fields
          /\ DOMAIN b[i] \subseteq Fields
          /\ \A f \in Fields : Get(a[i], f) = Get(b[i], f)

Defaulted(v, d) == IF v \in {Undefined, Null, ""} THEN d ELSE v
Clamped(st) == IF st \in {"accepted", "completed", "declined"} THEN st ELSE "pending"

----------------------------------------------------------------------------
(* C1: when the select-all of a load answers with at least one row, the    *)
(* displayed list becomes the rows mapped one to one, in table order,      *)
(* whatever the local cache holds; the cache and the remote table are left *)
(* as they are and the load ends there (no existence check, no insert).    *)
C1_RemoteBranchShowsRows ==
    [][\A p \in Loads :
        (LeavesSelect(p) /\ last'[p] = "found") =>
            /\ Len(remote) > 0
            /\ Len(rideRequests') = Len(remote)
            /\ \A i \in 1..Len(remote) :
                  LET row == remote[i]
                      shown == rideRequests'[i]
                      at == IF row.created_at = Null THEN NowISO ELSE row.created_at
                  IN /\ DOMAIN shown = Fields
                     /\ shown.id = row.id
                     /\ shown.studentName = row.student_id
                     /\ shown.studentEmail =
                            (IF row.student_id = Null THEN "null" ELSE row.student_id)
                                \o "@example.com"
                     /\ shown.pickupLocation = row.pickup_location
                     /\ shown.destination = row.destination
                     /\ at = shown.date \o "T" \o shown.time
                     /\ shown.status = Clamped(row.status)
                     /\ shown.disabilityType = "Not specified"
                     /\ shown.additionalNotes = "From database"
            /\ localStorage' = localStorage
            /\ remote' = remote
            /\ pc'[p] = "done"
            /\ ~raised'[p]
    ]_vars

\* a load ended in the remote branch and shows a row whose status the page
\* does not know, while the cache holds other entries
C1_Witness ==
    \E p \in Loads :
        /\ pc[p] = "done" /\ last[p] = "found"
        /\ Len(Cached) > 0
        /\ Len(rideRequests) = 1
        /\ rideRequests[1].id = "3"
        /\ rideRequests[1].status = "pending"
        /\ rideRequests[1].additionalNotes = "From database"
        /\ \A i \in 1..Len(Cached) : Cached[i].id # "3"

----------------------------------------------------------------------------
(* C2: when the select-all of a load answers with no row, with an error    *)
(* result or by throwing, the load does not reject and the displayed list  *)
(* becomes the local cache, entry by entry in order, with the defaults     *)
(* applied and the status clamped to pending/accepted/completed/declined.  *)
C2_FallbackShowsNormalizedCache ==
    /\ [](\A p \in Loads : ~raised[p])
    /\ [][\A p \in Loads :
            (LeavesSelect(p) /\ last'[p] \in {"nothing", "error", "throw"}) =>
                /\ Len(rideRequests') = Len(Cached)
                /\ \A i \in 1..Len(Cached) :
                      LET c == Cached[i]
                          shown == rideRequests'[i]
                      IN /\ DOMAIN shown = Fields
                         /\ shown.id = Get(c, "id")
                         /\ shown.studentName = Defaulted(Get(c, "studentName"), "Unknown")
                         /\ shown.studentEmail =
                                Defaulted(Get(c, "studentEmail"), "unknown@email.com")
                         /\ shown.pickupLocation = Defaulted(Get(c, "pickupLocation"), "")
                         /\ shown.destination = Defaulted(Get(c, "destination"), "")
                         /\ shown.date = Defaulted(Get(c, "date"), "2024-05-01")
                         /\ shown.time = Defaulted(Get(c, "time"), "10:00")
                         /\ shown.status = Clamped(Get(c, "status"))
                         /\ shown.status \in LocalStatuses
                         /\ shown.disabilityType =
                                Defaulted(Get(c, "disabilityType"), "Not specified")
                         /\ shown.additionalNotes = Get(c, "additionalNotes")
                /\ localStorage' = localStorage
                /\ ~raised'[p]
       ]_vars

\* a load whose select-all threw shows the two cached entries, the declined
\* one still declined
C2_Witness ==
    \E p \in Loads :
        /\ pc[p] = "check" /\ last[p] = "throw" /\ idx[p] = 1
        /\ Len(Cached) = 2
        /\ rideRequests = typedRequests[p]
        /\ rideRequests[1].status = "declined"
        /\ rideRequests[2].status = "pending"

----------------------------------------------------------------------------
\* after is before with the status of the entries of id X set to the target
\* status of action a, and nothing else changed
C3_TargetStatus(a) ==
    CASE a = "accept" -> "accepted"
      [] a = "decline" -> "declined"
      [] a = "complete" -> "completed"

C3_OnlyStatusOf(before, after, X, a) ==
    /\ Len(after) = Len(before)
    /\ \A i \in 1..Len(before) :
          /\ DOMAIN after[i] = DOMAIN before[i]
          /\ \A f \in DOMAIN before[i] :
                after[i][f] = IF before[i].id = X /\ f = "status"
                              THEN C3_TargetStatus(a) ELSE before[i][f]
    /\ (\A i \in 1..Len(before) : before[i].id # X) => after = before

(* C3: handleRideAction(X, accept | decline | complete) on any displayed   *)
(* list sets the status of the entries with id X to accepted | declined |  *)
(* completed and changes nothing else: same length, same order, the other  *)
(* entries and the other fields as they were; with no entry of id X the    *)
(* list is unchanged.                                                      *)
C3_ActionChangesOnlyTarget ==
    /\ [](\A X \in RequestIds, a \in Actions :
            C3_OnlyStatusOf(rideRequests, updatedRequestsOf(rideRequests, X, a), X, a))
    /\ [][ActionStarts =>
            C3_OnlyStatusOf(rideRequests, rideRequests', Started.id, Started.action)]_vars

\* an action was taken on one of two displayed entries: the other one kept
\* its status
C3_Witness ==
    /\ nActions > 0 /\ Len(inflight) = 1
    /\ Len(rideRequests) = 2
    /\ rideRequests[1].id = "2" /\ rideRequests[1].status = "declined"
    /\ rideRequests[2].id = "1" /\ rideRequests[2].status = "accepted"
    /\ inflight[1].id = "1" /\ inflight[1].action = "accept"

----------------------------------------------------------------------------
(* C4: a handleRideAction call leaves under the key "rideRequests" a text  *)
(* that deserializes to the updated displayed list, value for value (a     *)
(* property that is undefined in memory is absent from the text and reads  *)
(* as undefined again), whatever the key held before.                      *)
C4_ActionPersistsDisplayedList ==
    [][ActionStarts =>
        /\ localStorage' # <<>>
        /\ SameList(CachedNext, rideRequests')
        /\ rideRequests' # rideRequests
      ]_vars

\* an action taken on a list that came from the remote table: the cache now
\* holds that list, not what it held before
C4_Witness ==
    /\ nActions > 0
    /\ \E p \in Loads : pc[p] = "done" /\ last[p] = "found"
    /\ Len(rideRequests) = 1
    /\ rideRequests[1].additionalNotes = "From database"
    /\ rideRequests[1].status \in {"accepted", "declined"}
    /\ SameList(Cached, rideRequests)

----------------------------------------------------------------------------
(* C5: when the remote update of a handleRideAction call answers, however  *)
(* it answers, the displayed list and the local cache keep the new status  *)
(* written before the update was sent, and exactly one toast is shown per  *)
(* call: none before the answer, one at the answer.                        *)
C5_NoRollbackOneToast ==
    /\ [](toasts + Len(inflight) = nActions)
    /\ [][ActionEnds =>
            /\ rideRequests' = rideRequests
            /\ localStorage' = localStorage
            /\ toasts' = toasts + 1
            /\ Len(inflight') = Len(inflight) - 1]_vars
    /\ [][ActionStarts => toasts' = toasts]_vars

\* the update of an accept did not reach the remote row (it still says
\* rejected), the toast was shown, and the list and the cache say accepted
C5_Witness ==
    /\ toasts = 1 /\ inflight = <<>>
    /\ Len(rideRequests) = 1 /\ Len(remote) = 1
    /\ rideRequests[1].id = remote[1].id
    /\ rideRequests[1].status = "accepted"
    /\ Cached[1].status = "accepted"
    /\ remote[1].status = "rejected"

----------------------------------------------------------------------------
(* C6: the remote table never receives the status "declined": the row the  *)
(* backfill inserts for a declined entry and the update of a decline carry *)
(* "rejected"; and a load that shows the remote rows never shows a         *)
(* "rejected" row as declined (it shows it as pending).                    *)
C6_DeclinedIsRejectedRemotely ==
    /\ [](/\ \A i \in 1..Len(remote) : remote[i].status # "declined"
          /\ \A k \in 1..Len(inflight) :
                /\ inflight[k].patch.status # "declined"
                /\ inflight[k].action = "decline" => inflight[k].patch.status = "rejected")
    /\ [][Len(remote') > Len(remote) =>
            \E p \in Loads :
                /\ pc[p] = "insert"
                /\ remote'[Len(remote')].id = CurrentId(p)
                /\ typedRequests[p][idx[p]].status = "declined"
                        => remote'[Len(remote')].status = "rejected"]_vars
    /\ [][\A p \in Loads :
            (LeavesSelect(p) /\ last'[p] = "found") =>
                \A i \in 1..Len(remote) :
                    remote[i].status = "rejected" => rideRequests'[i].status = "pending"]_vars

\* the declined entry "2" of the cache was backfilled as rejected, and a
\* later load shows it as pending
C6_Witness ==
    \E p \in Loads :
        /\ pc[p] = "done" /\ last[p] = "found"
        /\ Len(rideRequests) = Len(remote)
        /\ \E i \in 1..Len(remote) :
              /\ remote[i].id = "2" /\ remote[i].status = "rejected"
              /\ rideRequests[i].id = "2" /\ rideRequests[i].status = "pending"
        /\ \E j \in 1..Len(Cached) : Cached[j].id = "2" /\ Cached[j].status = "declined"

----------------------------------------------------------------------------
\* the status the remote store is to receive for an action
C7_MappedStatus(a) ==
    CASE a = "accept" -> "accepted"
      [] a = "decline" -> "rejected"
      [] a = "complete" -> "completed"

(* C7 as stated: every handleRideAction call sends an update filtered by   *)
(* the request id, with the mapped status and a driver id that is not      *)
(* null.                                                                   *)
C7_Original ==
    \A k \in 1..Len(inflight) :
        /\ inflight[k].patch.status = C7_MappedStatus(inflight[k].action)
        /\ inflight[k].patch.driver_id # Null

(* C7 as amended: every handleRideAction call sends exactly one update,    *)
(* filtered by the request id, with the mapped status (accept -> accepted, *)
(* decline -> rejected, complete -> completed) and, as driver id, the id   *)
(* of the user useAuth() gives: null when it gives no user.                *)
C7_UpdateCarriesStatusAndUser ==
    /\ [](\A k \in 1..Len(inflight) :
            /\ inflight[k].patch.status = C7_MappedStatus(inflight[k].action)
            /\ inflight[k].patch.driver_id = inflight[k].user
            /\ inflight[k].user = Null <=> inflight[k].patch.driver_id = Null)
    /\ [][ActionStarts =>
            /\ Len(inflight') = Len(inflight) + 1
            /\ \A k \in 1..Len(inflight) : inflight'[k] = inflight[k]
            /\ \E i \in 1..Len(rideRequests) :
                  /\ rideRequests[i].id = Started.id
                  /\ rideRequests'[i].status # rideRequests[i].status]_vars

\* a decline by a signed-in driver is on its way as rejected, with the
\* driver's id
C7_Witness ==
    \E k \in 1..Len(inflight) :
        /\ inflight[k].action = "decline"
        /\ inflight[k].patch.status = "rejected"
        /\ inflight[k].patch.driver_id = "drv1"

----------------------------------------------------------------------------
(* C8 as stated: a load that fell back to the cache visits every cached    *)
(* entry, a failed call does not stop it, and it never has an insert on    *)
(* its way for an id the remote table holds.                               *)
C8_Original ==
    \A p \in Loads :
        /\ (pc[p] = "done" /\ typedRequests[p] # <<>>) => idx[p] = Len(typedRequests[p])
        /\ pc[p] = "insert" => CurrentId(p) \notin RowIds(remote)

(* C8 as amended: the backfill visits the cached entries in order, one     *)
(* awaited call at a time, up to the end of the list or to the first call  *)
(* that throws: the throw is caught, the load ends without rejecting and   *)
(* the later entries are not visited; a call that answers with an error    *)
(* result does not stop the loop.  An insert is sent for an entry exactly  *)
(* when its existence check answered without a row (no row found, or the   *)
(* check failed); and every entry whose check found a row or whose insert  *)
(* succeeded has a row in the table from then on.                          *)
C8_BackfillLoop ==
    /\ [](\A p \in Loads :
            pc[p] \in {"check", "insert"} => idx[p] \in 1..Len(typedRequests[p]))
    /\ [][\A i \in 1..Len(remote) :
            i <= Len(remote') /\ remote'[i].id = remote[i].id]_vars
    /\ [][\A p \in Loads : LoopStep(p) =>
            LET more == idx[p] < Len(typedRequests[p])
                next == /\ pc'[p] = (IF more THEN "check" ELSE "done")
                        /\ idx'[p] = (IF more THEN idx[p] + 1 ELSE idx[p])
            IN
            /\ typedRequests'[p] = typedRequests[p]
            /\ ~raised'[p]
            /\ last'[p] = "throw" => pc'[p] = "done" /\ idx'[p] = idx[p]
            /\ pc[p] = "check" =>
                  /\ last'[p] \in {"found", "nothing", "error", "throw"}
                  /\ remote' = remote
                  /\ last'[p] \in {"nothing", "error"} <=> pc'[p] = "insert"
                  /\ pc'[p] = "insert" => idx'[p] = idx[p]
                  /\ last'[p] = "found" => next /\ CurrentId(p) \in RowIds(remote)
            /\ pc[p] = "insert" =>
                  /\ last'[p] \in {"ok", "error", "throw"}
                  /\ last'[p] \in {"ok", "error"} => next
                  /\ last'[p] = "ok" =>
                        /\ CurrentId(p) \notin RowIds(remote)
                        /\ Len(remote') = Len(remote) + 1
                        /\ remote'[Len(remote')].id = CurrentId(p)
                  /\ last'[p] # "ok" => remote' = remote
       ]_vars

\* a backfill went through both cached entries and inserted the second one
C8_Witness ==
    \E p \in Loads :
        /\ pc[p] = "done" /\ last[p] = "ok"
        /\ Len(typedRequests[p]) = 2 /\ idx[p] = 2
        /\ \A i \in 1..2 : typedRequests[p][i].id \in RowIds(remote)

----------------------------------------------------------------------------
(* C9: check-then-insert is not atomic.  While one load has its insert for *)
(* an id on its way and the table does not hold the id yet, the existence  *)
(* check of an overlapping load for the same id can still answer that      *)
(* there is no row, which sends a second insert for that id.               *)
C9_CheckThenInsertRace ==
    \A p, q \in Loads :
        ( /\ p # q
          /\ pc[p] = "insert" /\ pc[q] = "check"
          /\ CurrentId(p) = CurrentId(q)
          /\ CurrentId(p) \notin RowIds(remote) )
        => ENABLED (CheckReturn(q, "ok") /\ pc'[q] = "insert")

\* both loads passed the check for the same absent id and both inserts are
\* on their way
C9_Witness ==
    /\ pc["mount"] = "insert" /\ pc["refresh"] = "insert"
    /\ last["mount"] = "nothing" /\ last["refresh"] = "nothing"
    /\ CurrentId("mount") = CurrentId("refresh")
    /\ CurrentId("mount") \notin RowIds(remote)

----------------------------------------------------------------------------
C10_Edges == {<<"pending", "accepted">>, <<"pending", "declined">>,
              <<"accepted", "completed">>}

(* C10: the table offers Accept and Decline only on an entry shown as      *)
(* pending and Complete only on one shown as accepted, nothing on a        *)
(* completed or declined one; so a handleRideAction call changes exactly   *)
(* one displayed status, along pending -> accepted, pending -> declined or *)
(* accepted -> completed.                                                  *)
C10_OfferedEdgesOnly ==
    /\ [](\A i, j \in 1..Len(rideRequests) :
            rideRequests[i].id = rideRequests[j].id => i = j)
    /\ [](\A o \in Offered(rideRequests) :
            \E i \in 1..Len(rideRequests) :
                /\ rideRequests[i].id = o[1]
                /\ \/ o[2] \in {"accept", "decline"} /\ rideRequests[i].status = "pending"
                   \/ o[2] = "complete" /\ rideRequests[i].status = "accepted")
    /\ [](\A i \in 1..Len(rideRequests) :
            /\ rideRequests[i].status = "pending" =>
                  {a \in Actions : <<rideRequests[i].id, a>> \in Offered(rideRequests)}
                        = {"accept", "decline"}
            /\ rideRequests[i].status = "accepted" =>
                  {a \in Actions : <<rideRequests[i].id, a>> \in Offered(rideRequests)}
                        = {"complete"})
    /\ [][ActionStarts =>
            /\ Len(rideRequests') = Len(rideRequests)
            /\ Cardinality({i \in 1..Len(rideRequests) :
                    rideRequests'[i].status # rideRequests[i].status}) = 1
            /\ \A i \in 1..Len(rideRequests) :
                    rideRequests'[i].status # rideRequests[i].status =>
                        <<rideRequests[i].status, rideRequests'[i].status>> \in C10_Edges]_vars

\* an accepted entry was completed and now offers nothing
C10_Witness ==
    /\ \E k \in 1..Len(inflight) : inflight[k].action = "complete"
    /\ Len(rideRequests) = 1
    /\ rideRequests[1].status = "completed"
    /\ Offered(rideRequests) = {}

====
